---- MODULE Spec2Model ----
(***************************************************************************)
(* State-machine model of src/pdf_processor.py: PDFProcessor.process_file  *)
(* and the methods it calls (make_api_request, upload_file, get_pdf_info,  *)
(* process_pdfco_operation, process_ilovepdf_operation, download_result,   *)
(* save_to_db).  The network, the console (input()) and the database are   *)
(* the environment: every answer they can give is a nondeterministic       *)
(* choice.  Strings shown to the user are written in English.              *)
(***************************************************************************)
EXTENDS Integers, Sequences, FiniteSets, TLC

(* ------------------------------ bounds -------------------------------- *)
\* largest attempt budget (self.max_retries) explored
MaxBudget == 3
\* largest page count a metadata answer carries
MaxPages == 2
\* largest number of non-empty result URLs in an operation's answer
MaxUrls == 2

(* --------------------------- configuration ---------------------------- *)
\* API_CONFIG[api]['endpoints'] : the endpoint keys of each provider
Endpoints ==
  [ pdfco    |-> {"upload", "info", "convert_jpg", "optimize", "split"},
    ilovepdf |-> {"upload", "merge", "pdf_to_docx", "watermark",
                  "compress_img", "rotate_img", "convert_png"} ]

\* PageCount absent from the metadata answer (dict.get gives None)
NonePages == -1

\* variant of lines 381 / 447 whose file name leaves the step number out
PathWithoutStep(step, idx, ext) == [step |-> 0, idx |-> idx, ext |-> ext]

\* a file on disk: the source document (step 0) or a downloaded result
\* f"{base_name}_step{step}_{i+1}{ext}"
Path(step, idx, ext) == [step |-> step, idx |-> idx, ext |-> ext]
SourceFile == Path(0, 0, ".pdf")
NoFile == Path(-1, 0, "")

\* the endings a path handed to process_file can have
Extensions == {".pdf", ".PDF", ".txt", ""}

\* the paths handed to process_file: whether os.path.exists holds, and the
\* ending of the name
Paths == [exists : BOOLEAN, ext : Extensions]

\* str.lower() on the endings of Extensions
Lower(s) == IF s = ".PDF" THEN ".pdf" ELSE s

\* variant of line 317 that accepts every ending
EndsWithPdfAlways(p) == TRUE

\* line 317: file_path.lower().endswith('.pdf')
EndsWithPdf(p) == Lower(p.ext) = ".pdf"

\* lines 312-320: which of the two input checks rejects the path, if any
PathKind(p) ==
  IF ~p.exists THEN "missing"
  ELSE IF ~EndsWithPdf(p) THEN "notpdf"
  ELSE "ok"

\* what the console can answer to "choose an operation (1-3)"
Choices == {"1", "2", "3", "x"}
\* what the console can answer to the page-range prompt of split
RangeInputs == {"all", "digits", "bad"}

\* messages of the ValueErrors process_file raises
ErrUploadPdfco == "Failed to upload the file to PDF.co"
ErrProcessPdfco == "File processing error"
ErrNoDownloads == "Failed to download the processing results"
ErrUploadIlovepdf == "Failed to upload the file to ilovepdf"
ErrProcessIlovepdf == "Processing error on ilovepdf"
ErrNotFound == "File not found"
ErrNotPdf == "Only PDF files are supported"
MsgSuccess == "Processing completed successfully"

VARIABLES
  max_retries,      \* self.max_retries, the attempt budget k
  path,             \* file_path: [exists, ext]
  pc,               \* position in process_file
  outdir,           \* TRUE once os.makedirs(output_dir) ran
  call,             \* the make_api_request call in progress or just ended
  result,           \* the parsed body make_api_request returned last
  sent,             \* every HTTP request sent so far: [api, ep, arg]
  file_url,         \* the file the remote url returned by upload_file names
  pages,            \* pdf_info['pages']
  choice,           \* the last answer read by a "choose an operation" prompt
  payload_pages,    \* payload['pages'] of the split request
  output_type,      \* output_type / result_type of the stage in progress
  operations,       \* operations: names of the stages executed
  result_files,     \* result_files: step -> list of artifacts
  step,             \* step
  urls,             \* number of non-empty URLs of the result being downloaded
  i,                \* downloads attempted so far in the current loop
  downloaded_files, \* downloaded_files of the current loop
  current_file,     \* current_file
  current_type,     \* current_type
  file_type,        \* file_type (stage 2 input type)
  error_msg,        \* the error handed to save_to_db ("" is None)
  save_calls,       \* the arguments of every save_to_db call of the run
  db_files,         \* committed rows of processed_files
  db_data,          \* committed rows of processed_files_data
  auto_inc,         \* AUTO_INCREMENT counter of processed_files
  save_results,     \* what every save_to_db call returned, and its lastrowid
  clean,            \* TRUE while every request was answered with what its
                    \* caller reads (no fault, no failed download)
  ret               \* what process_file returned: <<success, message>>

vars == << max_retries, clean, path, pc, outdir, call, result, sent, file_url, pages,
           choice, payload_pages, output_type, operations, result_files, step,
           urls, i, downloaded_files, current_file, current_type, file_type,
           error_msg, save_calls, save_results, db_files, db_data, auto_inc, ret >>

(* --------------------------- make_api_request ------------------------- *)
NoResult == [url |-> FALSE, PageCount |-> NonePages, pageCount |-> 0,
             urls |-> 0, empty |-> TRUE]

\* the bodies a success answer of endpoint ep can carry (error flag unset)
Responses(ep) ==
  IF ep = "upload"
    THEN {[NoResult EXCEPT !.url = u, !.empty = ~u] : u \in BOOLEAN}
  ELSE IF ep = "info"
    THEN {[NoResult EXCEPT !.PageCount = n, !.empty = FALSE] :
             n \in {NonePages} \cup (0..MaxPages)}
  ELSE IF ep = "pdf/page/count"
    THEN {[NoResult EXCEPT !.pageCount = n, !.empty = FALSE] : n \in 0..MaxPages}
  ELSE {NoResult} \cup {[NoResult EXCEPT !.urls = n, !.empty = FALSE] : n \in 0..MaxUrls}

IdleCall == [api |-> "pdfco", ep |-> "upload", arg |-> NoFile, state |-> "idle",
             exc |-> "none", attempt |-> 0, outcomes |-> <<>>, sleeps |-> 0]

\* lines 112-113: the url is resolved before the first attempt; an endpoint key
\* missing from API_CONFIG raises KeyError and no request is sent
StartCall(api, ep, arg) ==
  IF ep \in Endpoints[api]
    THEN [IdleCall EXCEPT !.api = api, !.ep = ep, !.arg = arg, !.state = "trying"]
    ELSE [IdleCall EXCEPT !.api = api, !.ep = ep, !.arg = arg, !.state = "raised",
                          !.exc = "KeyError"]

CallEnded == call.state \in {"returned", "raised"}

\* what the caller of make_api_request reads from a body: upload_file the url
\* (line 155), process_file a non-empty result of an operation (lines 365, 420)
AnswerUsable(ep, r) ==
  IF ep = "upload" THEN r.url
  ELSE IF ep \in {"info", "pdf/page/count"} THEN TRUE
  ELSE ~r.empty

\* variant of line 140 that compares with max_retries: one retry too many
IsLastAttemptOffByOne(attempt) == attempt = max_retries

\* line 140
IsLastAttempt(attempt) == attempt = max_retries - 1

\* line 139: the faults the retry loop catches (requests' RequestException,
\* which raise_for_status raises too); the ValueError of line 135 is not one
IsRetried(outcome) == outcome = "transport"

\* lines 121-142, one pass of the loop body: the request is sent and answered.
\* "transport" is any RequestException (raise_for_status included), "api" the
\* ValueError of line 135, "ok" a body without the error flag.
MakeApiRequestAttempt ==
  /\ call.state = "trying"
  /\ \E outcome \in {"ok", "transport", "api"} :
       /\ sent' = sent \cup {[api |-> call.api, ep |-> call.ep, arg |-> call.arg]}
       /\ IF outcome = "ok"
            THEN \E r \in Responses(call.ep) :
                   /\ result' = r
                   /\ clean' = (clean /\ AnswerUsable(call.ep, r))
                   /\ call' = [call EXCEPT !.state = "returned",
                                           !.outcomes = Append(@, outcome)]
            ELSE /\ result' = result
                 /\ clean' = FALSE
                 /\ call' =
                      IF ~IsRetried(outcome)
                        THEN [call EXCEPT !.state = "raised", !.exc = "ValueError",
                                          !.outcomes = Append(@, outcome)]
                      ELSE IF IsLastAttempt(call.attempt)
                        THEN [call EXCEPT !.state = "raised",
                                          !.exc = "RequestException",
                                          !.outcomes = Append(@, outcome)]
                      ELSE [call EXCEPT !.state = "sleeping",
                                        !.outcomes = Append(@, outcome)]
  /\ UNCHANGED << max_retries, path, pc, outdir, file_url, pages, choice,
                  payload_pages, output_type, operations, result_files, step,
                  urls, i, downloaded_files, current_file, current_type,
                  file_type, error_msg, save_calls, save_results, db_files, db_data,
                  auto_inc, ret >>

\* line 142 and the next turn of the for loop; line 144 when range() is exhausted
RetrySleep ==
  /\ call.state = "sleeping"
  /\ call' = IF call.attempt + 1 < max_retries
               THEN [call EXCEPT !.sleeps = @ + 1, !.attempt = @ + 1,
                                 !.state = "trying"]
               ELSE [call EXCEPT !.sleeps = @ + 1, !.attempt = @ + 1,
                                 !.state = "raised", !.exc = "Exception"]
  /\ UNCHANGED << max_retries, clean, path, pc, outdir, result, sent, file_url, pages,
                  choice, payload_pages, output_type, operations, result_files,
                  step, urls, i, downloaded_files, current_file, current_type,
                  file_type, error_msg, save_calls, save_results, db_files, db_data,
                  auto_inc, ret >>

(* ------------------------------ catalog ------------------------------- *)
\* lines 195-199: endpoints[operation] of process_pdfco_operation
PdfcoEndpoint(op) ==
  CASE op = "1" -> "convert_jpg"
    [] op = "2" -> "optimize"
    [] op = "3" -> "split"

\* variant of line 220 that forgets the image case
PdfcoOutputTypeAlwaysPdf(op) == "pdf"

\* line 220
PdfcoOutputType(op) == IF op = "1" THEN "image" ELSE "pdf"

\* lines 227-238: endpoints[file_type][operation] of process_ilovepdf_operation
IlovepdfEndpoint(ft, op) ==
  IF ft = "pdf"
    THEN CASE op = "1" -> "merge"
           [] op = "2" -> "pdf_to_docx"
           [] op = "3" -> "watermark"
    ELSE CASE op = "1" -> "compress_img"
           [] op = "2" -> "rotate_img"
           [] op = "3" -> "convert_png"

\* line 246
IlovepdfOutputType(ft, op) == IF op = "2" /\ ft = "pdf" THEN "docx" ELSE ft

\* lines 368-372
PdfcoOperationName(op) ==
  CASE op = "1" -> "Convert to JPG"
    [] op = "2" -> "Compress PDF"
    [] op = "3" -> "Split PDF"

\* lines 423-434
IlovepdfOperationName(ft, op) ==
  IF ft = "pdf"
    THEN CASE op = "1" -> "Merge PDF"
           [] op = "2" -> "Convert to Word"
           [] op = "3" -> "Add watermark"
    ELSE CASE op = "1" -> "Compress image"
           [] op = "2" -> "Rotate image"
           [] op = "3" -> "Convert to PNG"

\* line 380
Stage1Ext(t) == IF t = "image" THEN ".jpg" ELSE ".pdf"

\* lines 441-445
Stage2Ext(t) ==
  CASE t = "pdf" -> ".pdf"
    [] t = "image" -> ".jpg"
    [] t = "docx" -> ".docx"
    [] OTHER -> ".bin"

\* variant of lines 384-388 that records every artifact as a pdf
ArtifactUntyped(p, t) == [path |-> p, type |-> "pdf"]

\* lines 384-388 / 450-454: one entry of downloaded_files (the byte size that
\* os.path.getsize reads back is left out: nothing in process_file reads it)
Artifact(p, t) == [path |-> p, type |-> t]

(* ------------------------------ helpers ------------------------------- *)
\* variant of line 357 that compares with 1
SplitAllowedFromOnePage(c, n) == ~(c = "3" /\ n < 1)

\* variant of line 357 that never refuses
SplitAllowedAlways(c, n) == TRUE

\* variant of line 357 that compares with 3
SplitAllowedFromThreePages(c, n) == ~(c = "3" /\ n < 3)

\* line 357: a split choice is accepted unless the known page count is below 2
SplitAllowed(c, n) == ~(c = "3" /\ n < 2)

\* variant of upload_file that returns a url even when the request raised
UploadedUrlNeverNone == call.arg

\* lines 148-158: upload_file's return value, None when make_api_request raised
\* or when the answer carries neither 'url' nor 'file_url'
UploadedUrl ==
  IF call.state = "returned" /\ result.url THEN call.arg ELSE NoFile

\* variant of line 393 that does not record the stage
StoreStageDropped(rf, s, files) == rf

\* lines 393 / 457: result_files[step] = downloaded_files
StoreStage(rf, s, files) == (s :> files) @@ rf

\* variant of line 394 that forwards the last artifact
CurrentFileLast(files) == files[Len(files)].path

\* line 394
CurrentFile(files) == files[1].path

\* variant of line 400 that ignores the stage-1 type
Stage2FileTypeAlwaysPdf(t) == "pdf"

\* line 400
Stage2FileType(t) == IF t = "pdf" THEN "pdf" ELSE "image"

\* variant of lines 342-346 whose default page count is 2
InfoPagesDefaultTwo(got, n) == IF got THEN n ELSE 2

\* lines 342-346: pdf_info['pages'], 1 when get_pdf_info returned None
InfoPages(got, n) == IF got THEN n ELSE 1

\* variant of lines 221-223 in which a raise of the request is not reported
InvokeFailedOnlyEmpty == result.empty

\* lines 221-223 / 247-249 and 365 / 420: the operation gave no result, because
\* make_api_request raised or because the body is empty
InvokeFailed == call.state = "raised" \/ result.empty

\* line 285
DbStatus(error) == IF error # "" THEN "failed" ELSE "completed"

\* the artifacts of every step of rf, as (step, artifact) pairs
ArtifactsOf(rf) ==
  UNION {{<<s, rf[s][k]>> : k \in 1..Len(rf[s])} : s \in DOMAIN rf}

(* ----------------------------- process_file --------------------------- *)
\* the processor as constructed and handed a path.  __init__ sets max_retries
\* to 3; the attribute is the attempt budget k, explored from 1 to MaxBudget.
Init ==
  /\ max_retries \in 1..MaxBudget
  /\ path \in Paths
  /\ pc = "start"
  /\ outdir = FALSE
  /\ call = IdleCall
  /\ result = NoResult
  /\ sent = {}
  /\ file_url = NoFile
  /\ pages = 0
  /\ choice = ""
  /\ payload_pages = ""
  /\ output_type = ""
  /\ operations = <<>>
  /\ result_files = <<>>
  /\ step = 0
  /\ urls = 0
  /\ i = 0
  /\ downloaded_files = <<>>
  /\ current_file = NoFile
  /\ current_type = ""
  /\ file_type = ""
  /\ error_msg = ""
  /\ save_calls = <<>>
  /\ save_results = <<>>
  /\ clean = TRUE
  /\ db_files = {}
  /\ db_data = {}
  /\ auto_inc = 1
  /\ ret = <<>>

\* lines 312-337: the input checks, the output directory, and the call of
\* upload_file(file_path, 'pdfco')
Validate ==
  /\ pc = "start"
  /\ IF PathKind(path) = "missing"
       THEN /\ ret' = <<FALSE, ErrNotFound>>
            /\ pc' = "done"
            /\ UNCHANGED << outdir, call >>
     ELSE IF PathKind(path) = "notpdf"
       THEN /\ ret' = <<FALSE, ErrNotPdf>>
            /\ pc' = "done"
            /\ UNCHANGED << outdir, call >>
     ELSE /\ outdir' = TRUE
          /\ call' = StartCall("pdfco", "upload", SourceFile)
          /\ pc' = "upload1"
          /\ ret' = ret
  /\ UNCHANGED << max_retries, clean, path, result, sent, file_url, pages, choice,
                  payload_pages, output_type, operations, result_files, step,
                  urls, i, downloaded_files, current_file, current_type,
                  file_type, error_msg, save_calls, save_results, db_files, db_data, auto_inc >>

\* lines 337-342: upload_file returned; None raises, a url goes on to get_pdf_info
UploadPdfcoReturn ==
  /\ pc = "upload1"
  /\ CallEnded
  /\ file_url' = UploadedUrl
  /\ IF UploadedUrl = NoFile
       THEN /\ error_msg' = ErrUploadPdfco
            /\ pc' = "save"
            /\ call' = call
       ELSE /\ call' = StartCall("pdfco", "info", UploadedUrl)
            /\ pc' = "info"
            /\ error_msg' = error_msg
  /\ UNCHANGED << max_retries, clean, path, outdir, result, sent, pages, choice,
                  payload_pages, output_type, operations, result_files, step,
                  urls, i, downloaded_files, current_file, current_type,
                  file_type, save_calls, save_results, db_files, db_data, auto_inc, ret >>

\* lines 162-191 after the primary query, and lines 342-346: a raise (of the
\* query, or of `pages < 1` on a missing PageCount) makes get_pdf_info return
\* None and pages default to 1; a count below 1 starts the fallback query
GetPdfInfoPrimary ==
  /\ pc = "info"
  /\ CallEnded
  /\ IF call.state = "raised" \/ result.PageCount = NonePages
       THEN /\ pages' = InfoPages(FALSE, result.PageCount)
            /\ pc' = "select1"
            /\ call' = call
     ELSE IF result.PageCount < 1
       THEN /\ pages' = result.PageCount
            /\ call' = StartCall("pdfco", "pdf/page/count", file_url)
            /\ pc' = "info_fallback"
     ELSE /\ pages' = InfoPages(TRUE, result.PageCount)
          /\ pc' = "select1"
          /\ call' = call
  /\ UNCHANGED << max_retries, clean, path, outdir, result, sent, file_url, choice,
                  payload_pages, output_type, operations, result_files, step,
                  urls, i, downloaded_files, current_file, current_type,
                  file_type, error_msg, save_calls, save_results, db_files, db_data,
                  auto_inc, ret >>

\* lines 173-188: the fallback query ended; its raise is only logged
GetPdfInfoFallback ==
  /\ pc = "info_fallback"
  /\ CallEnded
  /\ pages' = IF call.state = "returned" THEN result.pageCount ELSE pages
  /\ pc' = "select1"
  /\ UNCHANGED << max_retries, clean, path, outdir, call, result, sent, file_url,
                  choice, payload_pages, output_type, operations, result_files,
                  step, urls, i, downloaded_files, current_file, current_type,
                  file_type, error_msg, save_calls, save_results, db_files, db_data,
                  auto_inc, ret >>

\* lines 354-364 and 201-203: one answer to the stage-1 prompt; an answer outside
\* 1-3 or a refused split asks again, a split goes on to the page-range prompt,
\* the others to the request of process_pdfco_operation
SelectOperation1 ==
  /\ pc = "select1"
  /\ \E c \in Choices :
       /\ choice' = c
       /\ IF c \in {"1", "2", "3"} /\ SplitAllowed(c, pages)
            THEN IF c = "3"
                   THEN /\ pc' = "split_range"
                        /\ call' = call
                   ELSE /\ pc' = "invoke1"
                        /\ call' = StartCall("pdfco", PdfcoEndpoint(c), file_url)
            ELSE /\ pc' = pc
                 /\ call' = call
  /\ UNCHANGED << max_retries, clean, path, outdir, result, sent, file_url, pages,
                  payload_pages, output_type, operations, result_files, step,
                  urls, i, downloaded_files, current_file, current_type,
                  file_type, error_msg, save_calls, save_results, db_files, db_data,
                  auto_inc, ret >>

\* lines 205-219: one answer to the page-range prompt of split
SplitRange ==
  /\ pc = "split_range"
  /\ \E inp \in RangeInputs :
       IF inp = "bad"
         THEN UNCHANGED << pc, call, payload_pages >>
         ELSE /\ payload_pages' = inp
              /\ pc' = "invoke1"
              /\ call' = StartCall("pdfco", PdfcoEndpoint(choice), file_url)
  /\ UNCHANGED << max_retries, clean, path, outdir, result, sent, file_url, pages,
                  choice, output_type, operations, result_files, step, urls, i,
                  downloaded_files, current_file, current_type, file_type,
                  error_msg, save_calls, save_results, db_files, db_data, auto_inc, ret >>

\* lines 220-223 and 364-378: process_pdfco_operation returned
ProcessPdfcoReturn ==
  /\ pc = "invoke1"
  /\ CallEnded
  /\ IF InvokeFailed
       THEN /\ error_msg' = ErrProcessPdfco
            /\ pc' = "save"
            /\ output_type' = IF call.state = "raised" THEN "" ELSE PdfcoOutputType(choice)
            /\ UNCHANGED << operations, step, urls, i, downloaded_files >>
       ELSE /\ output_type' = PdfcoOutputType(choice)
            /\ operations' = Append(operations, PdfcoOperationName(choice))
            /\ step' = 1
            /\ urls' = result.urls
            /\ i' = 0
            /\ downloaded_files' = <<>>
            /\ pc' = "download1"
            /\ error_msg' = error_msg
  /\ UNCHANGED << max_retries, clean, path, outdir, call, result, sent, file_url,
                  pages, choice, payload_pages, result_files, current_file,
                  current_type, file_type, save_calls, save_results, db_files, db_data,
                  auto_inc, ret >>

\* lines 379-388 and 251-270: one turn of the stage-1 download loop
Download1 ==
  /\ pc = "download1"
  /\ i < urls
  /\ LET save_path == Path(step, i + 1, Stage1Ext(output_type)) IN
       /\ sent' = sent \cup {[api |-> "pdfco", ep |-> "download", arg |-> save_path]}
       /\ \E ok \in BOOLEAN :
            /\ downloaded_files' =
                 IF ok THEN Append(downloaded_files, Artifact(save_path, output_type))
                       ELSE downloaded_files
            /\ clean' = (clean /\ ok)
  /\ i' = i + 1
  /\ UNCHANGED << max_retries, path, pc, outdir, call, result, file_url, pages,
                  choice, payload_pages, output_type, operations, result_files,
                  step, urls, current_file, current_type, file_type, error_msg,
                  save_calls, save_results, db_files, db_data, auto_inc, ret >>

\* lines 390-395: the end of the stage-1 loop
FinishStage1 ==
  /\ pc = "download1"
  /\ i = urls
  /\ IF downloaded_files = <<>>
       THEN /\ error_msg' = ErrNoDownloads
            /\ pc' = "save"
            /\ UNCHANGED << result_files, current_file, current_type >>
       ELSE /\ result_files' = StoreStage(result_files, step, downloaded_files)
            /\ current_file' = CurrentFile(downloaded_files)
            /\ current_type' = output_type
            /\ pc' = "ask2"
            /\ error_msg' = error_msg
  /\ UNCHANGED << max_retries, clean, path, outdir, call, result, sent, file_url,
                  pages, choice, payload_pages, output_type, operations, step,
                  urls, i, downloaded_files, file_type, save_calls, save_results, db_files,
                  db_data, auto_inc, ret >>

\* lines 398-400: the answer to "process on ilovepdf? (y/n)"
AskStage2 ==
  /\ pc = "ask2"
  /\ \E ans \in {"y", "n"} :
       IF ans = "y"
         THEN /\ step' = 2
              /\ file_type' = Stage2FileType(current_type)
              /\ pc' = "select2"
         ELSE /\ pc' = "save"
              /\ UNCHANGED << step, file_type >>
  /\ UNCHANGED << max_retries, clean, path, outdir, call, result, sent, file_url,
                  pages, choice, payload_pages, output_type, operations,
                  result_files, urls, i, downloaded_files, current_file,
                  current_type, error_msg, save_calls, save_results, db_files, db_data,
                  auto_inc, ret >>

\* lines 407-414: one answer to the stage-2 prompt, then upload_file of
\* current_file to ilovepdf
SelectOperation2 ==
  /\ pc = "select2"
  /\ \E c \in Choices :
       /\ choice' = c
       /\ IF c \in {"1", "2", "3"}
            THEN /\ pc' = "upload2"
                 /\ call' = StartCall("ilovepdf", "upload", current_file)
            ELSE UNCHANGED << pc, call >>
  /\ UNCHANGED << max_retries, clean, path, outdir, result, sent, file_url, pages,
                  payload_pages, output_type, operations, result_files, step,
                  urls, i, downloaded_files, current_file, current_type,
                  file_type, error_msg, save_calls, save_results, db_files, db_data,
                  auto_inc, ret >>

\* lines 414-419: upload_file returned
UploadIlovepdfReturn ==
  /\ pc = "upload2"
  /\ CallEnded
  /\ file_url' = UploadedUrl
  /\ IF UploadedUrl = NoFile
       THEN /\ error_msg' = ErrUploadIlovepdf
            /\ pc' = "save"
            /\ call' = call
       ELSE /\ call' = StartCall("ilovepdf", IlovepdfEndpoint(file_type, choice),
                                 UploadedUrl)
            /\ pc' = "invoke2"
            /\ error_msg' = error_msg
  /\ UNCHANGED << max_retries, clean, path, outdir, result, sent, pages, choice,
                  payload_pages, output_type, operations, result_files, step,
                  urls, i, downloaded_files, current_file, current_type,
                  file_type, save_calls, save_results, db_files, db_data, auto_inc, ret >>

\* lines 246-249 and 419-439: process_ilovepdf_operation returned
ProcessIlovepdfReturn ==
  /\ pc = "invoke2"
  /\ CallEnded
  /\ IF InvokeFailed
       THEN /\ error_msg' = ErrProcessIlovepdf
            /\ pc' = "save"
            /\ output_type' = IF call.state = "raised" THEN ""
                              ELSE IlovepdfOutputType(file_type, choice)
            /\ UNCHANGED << operations, urls, i, downloaded_files >>
       ELSE /\ output_type' = IlovepdfOutputType(file_type, choice)
            /\ operations' = Append(operations, IlovepdfOperationName(file_type, choice))
            /\ urls' = result.urls
            /\ i' = 0
            /\ downloaded_files' = <<>>
            /\ pc' = "download2"
            /\ error_msg' = error_msg
  /\ UNCHANGED << max_retries, clean, path, outdir, call, result, sent, file_url,
                  pages, choice, payload_pages, result_files, step,
                  current_file, current_type, file_type, save_calls, save_results, db_files,
                  db_data, auto_inc, ret >>

\* lines 440-454 and 251-270: one turn of the stage-2 download loop
Download2 ==
  /\ pc = "download2"
  /\ i < urls
  /\ LET save_path == Path(step, i + 1, Stage2Ext(output_type)) IN
       /\ sent' = sent \cup {[api |-> "ilovepdf", ep |-> "download", arg |-> save_path]}
       /\ \E ok \in BOOLEAN :
            /\ downloaded_files' =
                 IF ok THEN Append(downloaded_files, Artifact(save_path, output_type))
                       ELSE downloaded_files
            /\ clean' = (clean /\ ok)
  /\ i' = i + 1
  /\ UNCHANGED << max_retries, path, pc, outdir, call, result, file_url, pages,
                  choice, payload_pages, output_type, operations, result_files,
                  step, urls, current_file, current_type, file_type, error_msg,
                  save_calls, save_results, db_files, db_data, auto_inc, ret >>

\* lines 456-457: the end of the stage-2 loop
FinishStage2 ==
  /\ pc = "download2"
  /\ i = urls
  /\ result_files' = IF downloaded_files # <<>>
                       THEN StoreStage(result_files, step, downloaded_files)
                       ELSE result_files
  /\ pc' = "save"
  /\ UNCHANGED << max_retries, clean, path, outdir, call, result, sent, file_url,
                  pages, choice, payload_pages, output_type, operations, step,
                  urls, i, downloaded_files, current_file, current_type,
                  file_type, error_msg, save_calls, save_results, db_files, db_data,
                  auto_inc, ret >>

(* ------------------------------ save_to_db ---------------------------- *)
\* where the transaction of save_to_db can fail: opening the connection, the
\* job insert, one of the artifact inserts, the commit
FailPoints == {"none", "connect", "job", "data", "commit"}

\* line 328: file_info['filename']
Filename == "input.pdf"

\* lines 277-289: the processed_files row
JobRow(id, ops, error) ==
  [id |-> id, original_filename |-> Filename, operations |-> ops,
   status |-> DbStatus(error), error_message |-> error]

\* lines 291-303: the processed_files_data rows
DataRows(id, rf) ==
  {[file_id |-> id, step_number |-> sa[1], file_path |-> sa[2].path,
    file_type |-> sa[2].type] : sa \in ArtifactsOf(rf)}

\* lines 293-303: the rows of one step, in the order they are inserted
StepRows(id, s, files) ==
  [k \in 1..Len(files) |->
     [file_id |-> id, step_number |-> s, file_path |-> files[k].path,
      file_type |-> files[k].type]]

\* lines 291-292: the inserts of all steps, in the order of result_files.items()
InsertSeq(id, rf) ==
  IF DOMAIN rf = {} THEN <<>>
  ELSE IF DOMAIN rf = {1} THEN StepRows(id, 1, rf[1])
  ELSE StepRows(id, 1, rf[1]) \o StepRows(id, 2, rf[2])

\* lines 277-289: the job row the transaction holds when it ends at `fail`
InsertedFiles(fail, id, ops, error) ==
  IF fail \in {"connect", "job"} THEN {} ELSE {JobRow(id, ops, error)}

\* lines 291-303: the data rows the transaction holds when it ends at `fail`
\* (the k-th artifact insert is the one that fails)
InsertedData(fail, k, id, rf) ==
  IF fail \in {"connect", "job"} THEN {}
  ELSE IF fail = "data" THEN {InsertSeq(id, rf)[j] : j \in 1..(k - 1)}
  ELSE DataRows(id, rf)

\* variant in which every insert is committed as it is executed
VisibleAutocommit(committed, rows) == rows

\* lines 275 and 304: rows become visible by the one conn.commit(); leaving the
\* with block on an exception closes the connection and discards them
Visible(committed, rows) == IF committed THEN rows ELSE {}

\* variant in which the generated id does not advance
NextIdReused(id) == id

\* lines 74 and 289: AUTO_INCREMENT; the value a job insert drew is spent even
\* when the transaction is discarded
NextId(id) == id + 1

\* lines 272-308: save_to_db(file_info, ops, rf, error) as one transaction
SaveTransaction(ops, rf, error) ==
  \E fail \in FailPoints :
    \E k \in 1..(IF fail = "data" THEN Len(InsertSeq(auto_inc, rf)) ELSE 1) :
      /\ db_files' = db_files \cup
           Visible(fail = "none", InsertedFiles(fail, auto_inc, ops, error))
      /\ db_data' = db_data \cup
           Visible(fail = "none", InsertedData(fail, k, auto_inc, rf))
      /\ auto_inc' = IF fail \in {"connect", "job"} THEN auto_inc
                     ELSE NextId(auto_inc)
      /\ save_results' = Append(save_results,
           [ok |-> fail = "none",
            id |-> IF fail \in {"connect", "job"} THEN 0 ELSE auto_inc])
      /\ save_calls' = Append(save_calls,
           [operations |-> ops, result_files |-> rf,
            error |-> error, status |-> DbStatus(error)])

\* variant that reports failure when the save failed
ProcessFileReturnSaved(error, saved) ==
  IF error = "" /\ saved THEN <<TRUE, MsgSuccess>>
  ELSE <<FALSE, IF error = "" THEN "save failed" ELSE error>>

\* lines 461 and 467: what process_file returns; the value of save_to_db is
\* not read
ProcessFileReturn(error, saved) ==
  IF error = "" THEN <<TRUE, MsgSuccess>> ELSE <<FALSE, error>>

\* variant that calls save_to_db again when it returned False
AfterSaveRetry(saved) == IF saved THEN "done" ELSE "save"

\* lines 460-461 and 466-467: process_file returns right after save_to_db
AfterSave(saved) == "done"

\* lines 272-308 and 460-467: the save_to_db call of process_file, then its
\* return
SaveToDb ==
  /\ pc = "save"
  /\ SaveTransaction(operations, result_files, error_msg)
  /\ ret' = ProcessFileReturn(error_msg, save_results'[Len(save_results')].ok)
  /\ pc' = AfterSave(save_results'[Len(save_results')].ok)
  /\ UNCHANGED << max_retries, clean, path, outdir, call, result, sent, file_url,
                  pages, choice, payload_pages, output_type, operations,
                  result_files, step, urls, i, downloaded_files, current_file,
                  current_type, file_type, error_msg >>

Next ==
  \/ Validate
  \/ MakeApiRequestAttempt
  \/ RetrySleep
  \/ UploadPdfcoReturn
  \/ GetPdfInfoPrimary
  \/ GetPdfInfoFallback
  \/ SelectOperation1
  \/ SplitRange
  \/ ProcessPdfcoReturn
  \/ Download1
  \/ FinishStage1
  \/ AskStage2
  \/ SelectOperation2
  \/ UploadIlovepdfReturn
  \/ ProcessIlovepdfReturn
  \/ Download2
  \/ FinishStage2
  \/ SaveToDb

Spec == Init /\ [][Next]_vars

\* process_file is one sequential thread: whatever step it can take, it takes
\* (every network call returns or faults, every prompt is answered)
FairSpec == Spec /\ WF_vars(Next)

(* --------------------- save_to_db called on its own -------------------- *)
\* largest number of save_to_db calls made on one database
MaxSaves == 2

\* result_files values handed to save_to_db
StoreFiles ==
  LET a1 == Artifact(Path(1, 1, ".pdf"), "pdf")
      a2 == Artifact(Path(1, 2, ".pdf"), "pdf")
      b1 == Artifact(Path(2, 1, ".docx"), "docx")
  IN  { <<>>, << <<a1>> >>, << <<a1, a2>> >>, << <<a1, a2>>, <<b1>> >> }

\* a processor whose save_to_db is called directly, on an empty database
InitStore ==
  /\ max_retries = MaxBudget
  /\ path = [exists |-> TRUE, ext |-> ".pdf"]
  /\ pc = "store"
  /\ outdir = FALSE
  /\ call = IdleCall
  /\ result = NoResult
  /\ sent = {}
  /\ file_url = NoFile
  /\ pages = 0
  /\ choice = ""
  /\ payload_pages = ""
  /\ output_type = ""
  /\ operations = <<>>
  /\ result_files = <<>>
  /\ step = 0
  /\ urls = 0
  /\ i = 0
  /\ downloaded_files = <<>>
  /\ current_file = NoFile
  /\ current_type = ""
  /\ file_type = ""
  /\ error_msg = ""
  /\ save_calls = <<>>
  /\ save_results = <<>>
  /\ clean = TRUE
  /\ db_files = {}
  /\ db_data = {}
  /\ auto_inc = 1
  /\ ret = <<>>

\* lines 272-308: one call save_to_db(file_info, operations, result_files, error)
SaveToDbCall ==
  /\ pc = "store"
  /\ Len(save_calls) < MaxSaves
  /\ \E rf \in StoreFiles, error \in {"", ErrProcessIlovepdf} :
       SaveTransaction(
         IF DOMAIN rf = {1, 2} THEN <<"Compress PDF", "Convert to Word">>
         ELSE IF DOMAIN rf = {1} THEN <<"Compress PDF">> ELSE <<>>,
         rf, error)
  /\ UNCHANGED << max_retries, clean, path, pc, outdir, call, result, sent,
                  file_url, pages, choice, payload_pages, output_type,
                  operations, result_files, step, urls, i, downloaded_files,
                  current_file, current_type, file_type, error_msg, ret >>

SpecStore == InitStore /\ [][SaveToDbCall]_vars

(* ------------------------------- claims ------------------------------- *)
AllTransport(outs, n) == \A j \in 1..n : outs[j] = "transport"

InvokeRequests(api) ==
  {r \in sent : r.api = api /\ r.ep \notin {"upload", "info", "download"}}

\* C1: with budget k, a make_api_request call that meets a transport fault on
\* every attempt sends exactly k requests, sleeps exactly k-1 times (once
\* between two consecutive attempts, never after the last) and raises that
\* fault; one whose attempt j is the first to succeed sends exactly j requests,
\* sleeps j-1 times and returns.
C1_RetryBudget ==
  LET n == Len(call.outcomes) IN
    /\ n <= max_retries
    /\ call.state = "trying" =>
         n < max_retries /\ call.sleeps = n /\ AllTransport(call.outcomes, n)
    /\ call.state = "sleeping" => n < max_retries /\ call.sleeps = n - 1
    /\ (n = max_retries /\ AllTransport(call.outcomes, n)) =>
         /\ call.state = "raised"
         /\ call.exc = "RequestException"
         /\ call.sleeps = max_retries - 1
    /\ call.state = "returned" =>
         /\ call.outcomes[n] = "ok"
         /\ AllTransport(call.outcomes, n - 1)
         /\ call.sleeps = n - 1
    /\ call.exc # "Exception"

\* C1 witness: a budget of at least 2 was exhausted by transport faults
C1_Witness ==
  /\ max_retries >= 2
  /\ call.state = "raised"
  /\ call.exc = "RequestException"
  /\ Len(call.outcomes) = max_retries

\* C2: an API fault (success status, error flag set) is retried like a
\* transport fault: it is raised to the caller only once the budget of k
\* requests is used up.
C2_ApiFaultRetried ==
  (call.state = "raised" /\ call.outcomes # <<>>
     /\ call.outcomes[Len(call.outcomes)] = "api")
    => Len(call.outcomes) = max_retries

\* C3: a job saved as completed has at least one artifact recorded for every
\* stage that was executed (every name in its operations summary).
C3_CompletedStagesHaveArtifacts ==
  \A k \in 1..Len(save_calls) :
    save_calls[k].status = "completed" =>
      \A s \in 1..Len(save_calls[k].operations) :
        /\ s \in DOMAIN save_calls[k].result_files
        /\ save_calls[k].result_files[s] # <<>>

\* C4: a run that fails after input validation hands save_to_db the status
\* 'failed' and a non-empty error message, together with every artifact
\* downloaded before the failure; a committed record holds a row for each.
C4_FailedKeepsArtifacts ==
  (pc = "done" /\ PathKind(path) = "ok" /\ ret[1] = FALSE) =>
    /\ Len(save_calls) = 1
    /\ save_calls[1].status = "failed"
    /\ save_calls[1].error # ""
    /\ \A k \in 1..Len(downloaded_files) :
         /\ <<downloaded_files[k].path.step, downloaded_files[k]>>
              \in ArtifactsOf(save_calls[1].result_files)
         /\ db_files # {} =>
              \E row \in db_data : /\ row.file_path = downloaded_files[k].path
                                   /\ row.step_number = downloaded_files[k].path.step
    /\ \A row \in db_files : row.status = "failed" /\ row.error_message # ""

\* C4 witness: stage 2 failed after stage 1 had downloaded artifacts, and the
\* record was committed
C4_Witness ==
  /\ pc = "done"
  /\ ret[1] = FALSE
  /\ step = 2
  /\ Len(downloaded_files) = 2
  /\ db_files # {}

\* the state right after a split choice was refused for a page count below 2
SplitRefused == pc = "select1" /\ choice = "3"

\* C5 as stated: a split choice for a page count below 2 is refused before any
\* network request has been sent.
C5_SplitRefusedBeforeNetwork == (SplitRefused /\ pages < 2) => sent = {}

\* C5 as amended: a split choice is refused exactly when the known page count
\* is below 2; the refusal comes after the upload request, it does not end
\* the run (the prompt is repeated and save_to_db is still called once at the
\* end), and no split request reaches provider A while the count is below 2.
C5_SplitRefusedAfterUpload ==
  /\ SplitRefused =>
       /\ pages < 2
       /\ [api |-> "pdfco", ep |-> "upload", arg |-> SourceFile] \in sent
  /\ pages < 2 => \A r \in sent : r.ep # "split"
  /\ (pc = "done" /\ PathKind(path) = "ok") => Len(save_calls) = 1

\* C5 witness: a refused split
C5_Witness == SplitRefused /\ pages < 2 /\ call.ep = "info"

\* the primary metadata query succeeded without a usable page count
PrimaryGaveNoCount ==
  /\ result.PageCount < 1
  /\ \/ call.ep = "info" /\ call.state = "returned"
     \/ call.ep = "pdf/page/count"

\* C6: when the primary metadata query succeeds with a missing or zero page
\* count, a fallback page-count request is sent to provider A and its answer
\* is the page count used for the split precondition.
C6_FallbackQueried ==
  (pc = "select1" /\ PrimaryGaveNoCount) =>
    /\ \E r \in sent : r.api = "pdfco" /\ r.ep = "pdf/page/count"
    /\ pages = result.pageCount

\* C7: when the upload to provider A fails, the run goes straight to
\* save_to_db with the upload error and sends nothing more; the job is saved
\* as failed with no operation and no artifact, and only upload requests to
\* provider A were ever sent.
C7_UploadFailureEndsRun ==
  /\ [][(pc = "upload1" /\ call.state = "raised") =>
          (pc' = "save" /\ error_msg' = ErrUploadPdfco /\ sent' = sent)]_vars
  /\ [](error_msg = ErrUploadPdfco =>
          /\ \A r \in sent : r = [api |-> "pdfco", ep |-> "upload", arg |-> SourceFile]
          /\ operations = <<>> /\ result_files = <<>>
          /\ pc = "done" =>
               /\ ret = <<FALSE, ErrUploadPdfco>>
               /\ save_calls = << [operations |-> <<>>, result_files |-> <<>>,
                                   error |-> ErrUploadPdfco, status |-> "failed"] >>
               /\ db_data = {}
               /\ \A row \in db_files : row.status = "failed"
                                        /\ row.error_message = ErrUploadPdfco)

\* C7 witness: the budget was exhausted on the upload and the failed job committed
C7_Witness ==
  /\ pc = "done"
  /\ call.ep = "upload" /\ call.api = "pdfco"
  /\ call.exc = "RequestException"
  /\ Len(call.outcomes) = max_retries
  /\ db_files # {}

PdfOps == {"merge", "pdf_to_docx", "watermark"}
ImageOps == {"compress_img", "rotate_img", "convert_png"}

\* C8: a request goes to provider B only when stage 2 was asked for and stage 1
\* recorded at least one artifact; the stage-2 input type is the type of the
\* stage-1 artifacts, the operation invoked is one of the three of that type,
\* and no step number other than 1 or 2 exists.
C8_Stage2Typing ==
  /\ step \in 0..2
  /\ DOMAIN result_files \subseteq {1, 2}
  /\ \A row \in db_data : row.step_number \in {1, 2}
  /\ (\E r \in sent : r.api = "ilovepdf") =>
       /\ step = 2
       /\ 1 \in DOMAIN result_files
       /\ result_files[1] # <<>>
       /\ file_type = result_files[1][1].type
       /\ \A r \in InvokeRequests("ilovepdf") :
            r.ep \in (IF result_files[1][1].type = "pdf" THEN PdfOps ELSE ImageOps)

\* C8 witness: an image operation was invoked on provider B
C8_Witness == \E r \in sent : r.api = "ilovepdf" /\ r.ep = "convert_png"

\* C9: everything sent to provider B as stage-2 input is the first artifact of
\* stage 1, which is the downloaded result of lowest URL position; at most one
\* file is uploaded.
C9_OnlyFirstArtifactForwarded ==
  LET toB == {r \in sent : r.api = "ilovepdf" /\ r.ep # "download"} IN
    toB # {} =>
      /\ \A r \in toB : r.arg = result_files[1][1].path
      /\ \A k \in 1..Len(result_files[1]) :
           result_files[1][1].path.idx <= result_files[1][k].path.idx
      /\ Cardinality({r.arg : r \in toB}) = 1

\* C9 witness: stage 2 was invoked after stage 1 recorded two artifacts
C9_Witness ==
  /\ InvokeRequests("ilovepdf") # {}
  /\ Len(result_files[1]) = 2

\* the static table of the catalog: (provider, input type, choice) ->
\* (endpoint, output type)
StaticTable ==
  ( <<"pdfco", "pdf", "1">> :> <<"convert_jpg", "image">> ) @@
  ( <<"pdfco", "pdf", "2">> :> <<"optimize", "pdf">> ) @@
  ( <<"pdfco", "pdf", "3">> :> <<"split", "pdf">> ) @@
  ( <<"ilovepdf", "pdf", "1">> :> <<"merge", "pdf">> ) @@
  ( <<"ilovepdf", "pdf", "2">> :> <<"pdf_to_docx", "docx">> ) @@
  ( <<"ilovepdf", "pdf", "3">> :> <<"watermark", "pdf">> ) @@
  ( <<"ilovepdf", "image", "1">> :> <<"compress_img", "image">> ) @@
  ( <<"ilovepdf", "image", "2">> :> <<"rotate_img", "image">> ) @@
  ( <<"ilovepdf", "image", "3">> :> <<"convert_png", "image">> )

\* C10: the endpoint an operation is invoked on and the output type it
\* returns are those of the static table for (provider, input type, choice);
\* docx is an output type of stage 2 only and never an input type.
C10_CatalogTable ==
  /\ pc \in {"invoke1", "download1"} =>
       /\ call.ep = StaticTable[<<"pdfco", "pdf", choice>>][1]
       /\ pc = "download1" =>
            output_type = StaticTable[<<"pdfco", "pdf", choice>>][2]
  /\ pc \in {"invoke2", "download2"} =>
       /\ call.ep = StaticTable[<<"ilovepdf", file_type, choice>>][1]
       /\ pc = "download2" =>
            output_type = StaticTable[<<"ilovepdf", file_type, choice>>][2]
  /\ file_type # "docx" /\ current_type # "docx"
  /\ \A sa \in ArtifactsOf(result_files) :
       /\ sa[2].type = "docx" => sa[1] = 2
       /\ sa[1] = 1 => sa[2].type = StaticTable[<<"pdfco", "pdf",
                          CHOOSE c \in {"1", "2", "3"} :
                            PdfcoOperationName(c) = operations[1]>>][2]

\* C10 witness: the pdf-to-docx operation of provider B returned
C10_Witness == pc = "download2" /\ output_type = "docx" /\ call.ep = "pdf_to_docx"

\* the rows of the store that carry the id a save_to_db call drew
FilesOfId(id) == {row \in db_files : row.id = id}
DataOfId(id) == {row \in db_data : row.file_id = id}

\* C11: after any number of save_to_db calls, each call that returned True
\* left its job row and exactly one data row per artifact (with the stage's
\* step number and type), and each call that returned False, wherever it
\* failed, left no row at all: every row of the store belongs to a call that
\* succeeded.
C11_SaveAtomic ==
  /\ \A k \in 1..Len(save_results) :
       LET args == save_calls[k]
           res  == save_results[k]
       IN  IF res.ok
             THEN /\ FilesOfId(res.id) =
                       {JobRow(res.id, args.operations, args.error)}
                  /\ DataOfId(res.id) = DataRows(res.id, args.result_files)
                  /\ \A sa \in ArtifactsOf(args.result_files) :
                       \E row \in DataOfId(res.id) :
                         /\ row.step_number = sa[1]
                         /\ row.file_path = sa[2].path
                         /\ row.file_type = sa[2].type
             ELSE FilesOfId(res.id) = {} /\ DataOfId(res.id) = {}
  /\ \A row \in db_files :
       \E k \in 1..Len(save_results) : save_results[k].ok /\ save_results[k].id = row.id
  /\ \A row \in db_data :
       \E k \in 1..Len(save_results) :
         save_results[k].ok /\ save_results[k].id = row.file_id

\* C11 witness: a call with artifacts failed after its job insert, and another
\* call committed
C11_Witness ==
  /\ db_files # {}
  /\ \E k \in 1..Len(save_results) :
       /\ ~save_results[k].ok
       /\ save_results[k].id # 0
       /\ Len(InsertSeq(1, save_calls[k].result_files)) >= 2

\* C12: a run that passed validation calls save_to_db exactly once, when the
\* outcome of the pipeline is decided; no request and no second save follows
\* it, and process_file returns its pair whether or not the save succeeded.
C12_SavedOnceAtEnd ==
  /\ [][save_calls # <<>> => (sent' = sent /\ save_calls' = save_calls)]_vars
  /\ [](Len(save_calls) <= 1)
  /\ [](save_calls # <<>> => pc = "done")
  /\ []((pc = "done" /\ PathKind(path) = "ok") =>
          (Len(save_calls) = 1 /\ Len(save_results) = 1 /\ Len(ret) = 2))

\* C12 witness: the save failed and process_file still returned
C12_Witness ==
  /\ pc = "done"
  /\ Len(save_results) = 1
  /\ ~save_results[1].ok
  /\ Len(ret) = 2
  /\ sent # {}

\* C16: two save_to_db calls with the same content that both returned True
\* drew different ids and each left its own job row and its own full set of
\* data rows.
C16_NoDedup ==
  \A k1 \in 1..Len(save_results), k2 \in 1..Len(save_results) :
    (k1 < k2 /\ save_results[k1].ok /\ save_results[k2].ok
       /\ save_calls[k1] = save_calls[k2]) =>
      LET id1 == save_results[k1].id
          id2 == save_results[k2].id
          n   == Cardinality(ArtifactsOf(save_calls[k1].result_files))
      IN  /\ id1 # id2
          /\ Cardinality(FilesOfId(id1) \cup FilesOfId(id2)) = 2
          /\ Cardinality(DataOfId(id1)) = n
          /\ Cardinality(DataOfId(id2)) = n
          /\ DataOfId(id1) \cap DataOfId(id2) = {}

\* C16 witness: the same job with three artifacts was saved twice
C16_Witness ==
  /\ Len(save_results) = 2
  /\ save_results[1].ok /\ save_results[2].ok
  /\ save_calls[1] = save_calls[2]
  /\ Cardinality(db_data) = 6

\* C20: the success flag process_file returns is True exactly when the status
\* handed to save_to_db was 'completed' and False exactly when it was
\* 'failed' or the input was rejected, whatever save_to_db returned.
C20_FlagAgreesWithStatus ==
  pc = "done" =>
    IF PathKind(path) = "ok"
      THEN /\ Len(save_calls) = 1
           /\ ret[1] = (save_calls[1].status = "completed")
           /\ ~ret[1] = (save_calls[1].status = "failed")
      ELSE ret[1] = FALSE /\ save_calls = <<>>

\* C20 witness: a completed run whose save failed
C20_Witness ==
  /\ pc = "done"
  /\ ret[1] = TRUE
  /\ ~save_results[1].ok

Rank(r) ==
  IF r.api = "pdfco"
    THEN CASE r.ep = "upload" -> 1
           [] r.ep \in {"info", "pdf/page/count"} -> 2
           [] r.ep = "download" -> 4
           [] OTHER -> 3
    ELSE CASE r.ep = "upload" -> 5
           [] r.ep = "download" -> 7
           [] OTHER -> 6

\* an upload or an operation raised, or stage 1 ended with nothing downloaded
StepFailed ==
  \/ pc \in {"upload1", "invoke1", "upload2", "invoke2"} /\ call.state = "raised"
  \/ pc = "download1" /\ i = urls /\ downloaded_files = <<>>

\* C14: requests are sent in the order upload(A), metadata(A), invoke(A),
\* downloads(A), upload(B), invoke(B), downloads(B), none without the step
\* before it; a failed upload, a failed invoke or a stage 1 without downloaded
\* artifact makes the job Failed, and a Failed job sends nothing more.
C14_StepOrder ==
  /\ [][\A r \in sent' \ sent : \A q \in sent : Rank(q) <= Rank(r)]_vars
  /\ [](\A r \in sent : Rank(r) > 1 => \E q \in sent : Rank(q) = Rank(r) - 1)
  /\ [][StepFailed => (pc' = "save" /\ error_msg' # "")]_vars
  /\ [][error_msg # "" => (sent' = sent /\ error_msg' = error_msg)]_vars

\* C14 witness: stage 1 failed after its downloads, and nothing went to
\* provider B
C14_Witness ==
  /\ pc = "done"
  /\ error_msg = ErrNoDownloads
  /\ \E r \in sent : Rank(r) = 4
  /\ \A r \in sent : Rank(r) <= 4

Downloads(api) == {r \in sent : r.api = api /\ r.ep = "download"}

\* the stage-1 operation choice whose name is in the summary
Stage1Choice(ops) == CHOOSE c \in {"1", "2", "3"} : PdfcoOperationName(c) = ops[1]

\* the job handed to save_to_db is Completed with one artifact per result URL
\* of each executed stage, typed by the catalog, and a summary of one or two
\* operations
CompletedWithAllArtifacts ==
  LET job  == save_calls[1]
      arts == ArtifactsOf(job.result_files)
      n1   == Cardinality(Downloads("pdfco"))
      n2   == Cardinality(Downloads("ilovepdf"))
  IN  /\ job.status = "completed"
      /\ ret[1] = TRUE
      /\ Len(job.operations) = (IF step = 2 THEN 2 ELSE 1)
      /\ step # 2 => job.operations = <<PdfcoOperationName(choice)>> /\ n2 = 0
      /\ Cardinality(arts) = n1 + n2
      /\ {sa[2].path : sa \in {x \in arts : x[1] = 1}} = {r.arg : r \in Downloads("pdfco")}
      /\ {sa[2].path : sa \in {x \in arts : x[1] = 2}} = {r.arg : r \in Downloads("ilovepdf")}
      /\ \A sa \in arts :
           sa[2].type =
             IF sa[1] = 1
               THEN StaticTable[<<"pdfco", "pdf", Stage1Choice(job.operations)>>][2]
               ELSE StaticTable[<<"ilovepdf", file_type, choice>>][2]
      /\ save_results[1].ok =>
           /\ Cardinality(db_data) = n1 + n2
           /\ \A row \in db_files : row.status = "completed"

\* C15 as stated: when every request succeeds, the job is Completed with one
\* artifact per result URL of each executed stage.
C15_AllSucceedCompleted ==
  (pc = "done" /\ PathKind(path) = "ok" /\ clean) => CompletedWithAllArtifacts

\* C15 as amended: the same, when stage 1 has at least one result URL.
C15_AllSucceedWithUrlsCompleted ==
  (pc = "done" /\ PathKind(path) = "ok" /\ clean /\ Downloads("pdfco") # {})
    => CompletedWithAllArtifacts

\* C15 witness: convert to JPG with 2 results, then convert to PNG with 2
\* results, all saved
C15_Witness ==
  /\ pc = "done"
  /\ clean
  /\ operations = <<"Convert to JPG", "Convert to PNG">>
  /\ Cardinality(ArtifactsOf(result_files)) = 4
  /\ Cardinality(db_data) = 4

\* C17: a split request is sent, and the page-range prompt reached, only with
\* a page count of at least 2; at the prompt that count is the PageCount of
\* the metadata answer when the query returned one, and 1 when the query
\* failed.
C17_SplitNeedsTwoPages ==
  /\ [][(\E r \in sent' \ sent : r.ep = "split") => pages >= 2]_vars
  /\ [][(pc = "select1" /\ pc' = "split_range") => pages >= 2]_vars
  /\ [](pc \in {"select1", "split_range"} =>
          /\ (call.ep = "info" /\ call.state = "returned"
                /\ result.PageCount # NonePages) => pages = result.PageCount
          /\ call.ep = "pdf/page/count" => pages = result.PageCount
          /\ (call.ep = "info" /\ call.state = "raised") => pages = 1)

\* C17 witness: a split request was sent
C17_Witness == pages >= 2 /\ \E r \in sent : r.ep = "split"

DownloadStep == pc \in {"download1", "download2"} /\ i' = i + 1

\* C18: in a download loop every result URL is requested once, in order, and
\* a failed download neither ends the loop nor fails the stage; the artifacts
\* are the downloads that succeeded, stage 1 fails only when there is none,
\* and no two artifacts of a job have the same path.
C18_Downloads ==
  /\ [](pc = "download1" =>
          /\ i <= urls
          /\ Cardinality(Downloads("pdfco")) = i
          /\ {r.arg.idx : r \in Downloads("pdfco")} = 1..i)
  /\ [](pc = "download2" =>
          /\ i <= urls
          /\ Cardinality(Downloads("ilovepdf")) = i
          /\ {r.arg.idx : r \in Downloads("ilovepdf")} = 1..i)
  /\ [][(pc \in {"download1", "download2"} /\ pc' # pc) => i = urls]_vars
  /\ [][(pc \in {"download1", "download2"} /\ i < urls) =>
          (DownloadStep /\ pc' = pc /\ error_msg' = error_msg)]_vars
  /\ [][DownloadStep =>
          /\ Cardinality(sent' \ sent) = 1
          /\ \A r \in sent' \ sent : r.ep = "download" /\ r.arg.idx = i + 1
          /\ \/ /\ downloaded_files' = downloaded_files
                /\ ~clean'
             \/ /\ Len(downloaded_files') = Len(downloaded_files) + 1
                /\ \E r \in sent' \ sent :
                     downloaded_files'[Len(downloaded_files')].path = r.arg
                /\ clean' = clean]_vars
  /\ [](error_msg = ErrNoDownloads => downloaded_files = <<>> /\ result_files = <<>>)
  /\ [][(pc = "download1" /\ pc' # pc) =>
          IF downloaded_files = <<>>
            THEN error_msg' = ErrNoDownloads
            ELSE pc' = "ask2" /\ result_files'[1] = downloaded_files]_vars
  /\ [](\A s \in DOMAIN result_files, t \in DOMAIN result_files :
          \A j \in 1..Len(result_files[s]), k \in 1..Len(result_files[t]) :
            (s # t \/ j # k) => result_files[s][j].path # result_files[t][k].path)

\* C18 witness: of two stage-1 results the first download failed and the
\* second is the stage's only artifact; stage 2 recorded artifacts too
C18_Witness ==
  /\ DOMAIN result_files = {1, 2}
  /\ Len(result_files[1]) = 1
  /\ result_files[1][1].path.idx = 2
  /\ Cardinality(Downloads("pdfco")) = 2

\* the metadata query raised and process_file is at the stage-1 prompt
MetadataFailed == call.ep = "info" /\ call.state = "raised"

\* C19: when the metadata query fails, process_file goes on to the stage-1
\* prompt with a page count of 1 and no error; from there a split answer is
\* refused and the other operations are invoked.
C19_MetadataFailureGoesOn ==
  /\ [][(pc = "info" /\ MetadataFailed) =>
          (pc' = "select1" /\ pages' = 1 /\ error_msg' = "")]_vars
  /\ []((pc = "select1" /\ MetadataFailed) => (pages = 1 /\ error_msg = ""))
  /\ [][(pc = "select1" /\ MetadataFailed) =>
          \/ pc' = "select1" /\ choice' \in {"3", "x"}
          \/ pc' = "invoke1" /\ choice' \in {"1", "2"}
                             /\ call'.ep = PdfcoEndpoint(choice')]_vars

\* C19 witness: after a metadata query that used up its budget, a split answer
\* was refused
C19_Witness ==
  /\ pc = "select1"
  /\ MetadataFailed
  /\ call.exc = "RequestException"
  /\ choice = "3"

\* the input path is missing or its name does not end in .pdf (in either case)
Rejected == ~path.exists \/ path.ext \notin {".pdf", ".PDF"}

\* C21: for an input path that does not exist or does not end in .pdf,
\* process_file returns failure with a non-empty message, sends no request,
\* does not create the output directory and does not call save_to_db, so no
\* row is written.
C21_RejectedInputNoEffects ==
  Rejected =>
    /\ pc \in {"start", "done"}
    /\ sent = {}
    /\ call = IdleCall
    /\ ~outdir
    /\ save_calls = <<>>
    /\ db_files = {} /\ db_data = {}
    /\ pc = "done" =>
         /\ ret[1] = FALSE
         /\ ret[2] # ""
         /\ ret[2] = (IF path.exists THEN ErrNotPdf ELSE ErrNotFound)

\* C21 witness: an existing .txt file was rejected
C21_Witness ==
  /\ pc = "done"
  /\ path.exists
  /\ path.ext = ".txt"
  /\ ret = <<FALSE, ErrNotPdf>>

====
